---- MODULE Spec2Model ----
(***************************************************************************)
(* A model of the esparser tokenizer (src/parser/tokenizer.rs), the        *)
(* recursive-descent parser on top of it (src/parser/parser.rs) and the    *)
(* driver loop that drains either of them (src/cli/main.rs).               *)
(*                                                                         *)
(* A character is a one-character string, a text is a sequence of          *)
(* characters.  Option::None is the string None, which is no character     *)
(* and no token.                                                           *)
(***************************************************************************)
EXTENDS Integers, Sequences, FiniteSets, TLC

VARIABLES
    input,      \* the whole source text handed to the driver (never changes)
    tokenizer,  \* Tokenizer { chars, lookaheads, slice }
    lookahead,  \* Parser.lookahead: the cached token, or None
    preserve_comments,  \* Parser.preserve_comments
    pc,         \* where the driver is: "tokenize" (the --tokenize-only loop),
                \* "parse_script" (the head of parse_script's loop),
                \* "named_imports" (the head of parse_named_imports' loop),
                \* "done" (main returned), "panic" (a todo!() aborted the process)
    out,        \* the lines printed by the --tokenize-only loop: <<[token, slice]>>
    stmts,      \* parse_script's stmts
    import_specifiers,  \* parse_named_imports' import_specifiers
    result      \* what parse_script returned: a Script or a ParseError

vars == <<input, tokenizer, lookahead, preserve_comments, pc, out, stmts,
          import_specifiers, result>>

(***************************************************************************)
(* Bounds of the model.                                                    *)
(***************************************************************************)
MaxLen == 4        \* longest text drawn over an alphabet
MaxTokens == 6     \* most lines the tokenize-only loop prints before the model stops
MaxUnits == 2      \* most statement-sized texts joined into one source
MaxItems == 3      \* most identifiers and commas between the braces of a generated import
MaxSpecifiers == 5 \* most import specifiers collected before the model stops

None == "None"
Panic == "Panic"

(***************************************************************************)
(* Character classes (char::is_whitespace, is_alphabetic, is_numeric,      *)
(* is_alphanumeric) on the characters the model draws.                     *)
(***************************************************************************)
Letters == {"a", "b", "c", "e", "f", "i", "l", "m", "n", "o", "p", "r", "s", "t", "v", "x"}
Digits == {"0", "1", "2"}

IsWhitespace(c) == c \in {" ", "\n", "\t"}
IsAlphabetic(c) == c \in Letters
IsNumeric(c) == c \in Digits
IsAlphanumeric(c) == IsAlphabetic(c) \/ IsNumeric(c)

(***************************************************************************)
(* Keyword texts matched by consume_identifier.                            *)
(***************************************************************************)
KwConst == <<"c", "o", "n", "s", "t">>
KwImport == <<"i", "m", "p", "o", "r", "t">>
KwLet == <<"l", "e", "t">>
KwVar == <<"v", "a", "r">>

(***************************************************************************)
(* Tokenizer::new: nothing read, nothing queued, empty slice.              *)
(***************************************************************************)
NewTokenizer(text) == [chars |-> text, lookaheads |-> <<>>, slice |-> <<>>]

\* A call's result: the tokenizer after it and the character it returned.
RetCh(t, c) == [t |-> t, ch |-> c]
\* A call's result: the tokenizer after it and the token it returned.
RetTok(t, token) == [t |-> t, tok |-> token]

(***************************************************************************)
(* peek_char: always reads the character stream (never the queue), pushes  *)
(* what it read to the back of the queue and returns it.                   *)
(***************************************************************************)
PeekChar(t) ==
    IF t.chars = <<>>
    THEN RetCh(t, None)
    ELSE RetCh([t EXCEPT !.chars = Tail(@),
                         !.lookaheads = Append(@, Head(t.chars))],
               Head(t.chars))

(***************************************************************************)
(* consume_char: commits the front of the queue to the slice, or, with an  *)
(* empty queue, the next character of the stream; nothing at end of input. *)
(***************************************************************************)
ConsumeChar(t) ==
    IF t.lookaheads # <<>>
    THEN [t EXCEPT !.lookaheads = Tail(@), !.slice = Append(@, Head(t.lookaheads))]
    ELSE IF t.chars # <<>>
         THEN [t EXCEPT !.chars = Tail(@), !.slice = Append(@, Head(t.chars))]
         ELSE t

\* next_char: the front of the queue if there is one, else peek_char.
NextChar(t) ==
    IF t.lookaheads # <<>> THEN RetCh(t, Head(t.lookaheads)) ELSE PeekChar(t)

ConsumeCharAndPeek(t) == PeekChar(ConsumeChar(t))

ConsumeNextChar(t) == LET r == NextChar(t) IN RetCh(ConsumeChar(r.t), r.ch)

ConsumeCharAs(t, token) == RetTok(ConsumeChar(t), token)

(***************************************************************************)
(* The whitespace loop at the head of get_next_token.                      *)
(***************************************************************************)
RECURSIVE SkipWhitespace(_)
SkipWhitespace(r) ==
    IF r.ch # None /\ IsWhitespace(r.ch)
    THEN SkipWhitespace(ConsumeCharAndPeek(r.t))
    ELSE r

(***************************************************************************)
(* consume_identifier: the scan loop, then the keyword match on the slice. *)
(***************************************************************************)
RECURSIVE IdentifierLoop(_)
IdentifierLoop(r) ==
    IF r.ch = None
    THEN r.t
    ELSE IF ~IsAlphanumeric(r.ch) /\ r.ch # "_"
         THEN ConsumeChar(r.t)
         ELSE IdentifierLoop(PeekChar(ConsumeChar(r.t)))

KeywordOf(slice) ==
    CASE slice = KwConst -> "ConstKeyword"
      [] slice = KwImport -> "ImportKeyword"
      [] slice = KwLet -> "LetKeyword"
      [] slice = KwVar -> "VarKeyword"
      [] OTHER -> "IdentifierName"

ConsumeIdentifier(t) ==
    LET t2 == IdentifierLoop(PeekChar(t)) IN RetTok(t2, KeywordOf(t2.slice))

RECURSIVE NumericLoop(_)
NumericLoop(r) ==
    IF r.ch = None
    THEN r.t
    ELSE IF ~IsNumeric(r.ch) /\ r.ch # "_"
         THEN ConsumeChar(r.t)
         ELSE NumericLoop(PeekChar(ConsumeChar(r.t)))

ConsumeNumericLiteral(t) == RetTok(NumericLoop(PeekChar(t)), "NumericLiteral")

(***************************************************************************)
(* consume_double_quote_string_literal / consume_single_quote_...: the     *)
(* opening quote is consumed as prev, then characters are consumed until   *)
(* the quote that does not follow a backslash, or the end of input.        *)
(***************************************************************************)
RECURSIVE StringLoop(_, _, _)
StringLoop(t, prev, quote) ==
    LET r == ConsumeNextChar(t) IN
    IF r.ch = None
    THEN r.t
    ELSE IF prev # "\\" /\ r.ch = quote
         THEN r.t
         ELSE StringLoop(r.t, r.ch, quote)

ConsumeStringLiteral(t, quote) ==
    LET r == ConsumeNextChar(t) IN RetTok(StringLoop(r.t, r.ch, quote), "StringLiteral")

ConsumeDoubleQuoteStringLiteral(t) == ConsumeStringLiteral(t, "\"")
ConsumeSingleQuoteStringLiteral(t) == ConsumeStringLiteral(t, "'")

RECURSIVE CommentLoop(_)
CommentLoop(r) ==
    IF r.ch = None \/ r.ch = "\n"
    THEN r.t
    ELSE CommentLoop(PeekChar(ConsumeChar(r.t)))

ConsumeSingleLineComment(t) == RetTok(CommentLoop(PeekChar(t)), "SingleLineComment")

(***************************************************************************)
(* The operator branches of get_next_token, each entered after the         *)
(* whitespace loop returned the operator's first character.                *)
(***************************************************************************)
\* '!'  '!='  '!=='
BranchExclamation(t) ==
    LET r1 == ConsumeCharAndPeek(t) IN
    IF r1.ch = "="
    THEN LET r2 == ConsumeCharAndPeek(r1.t) IN
         IF r2.ch = "="
         THEN ConsumeCharAs(r2.t, "StrictInequality")
         ELSE RetTok(r2.t, "Inequality")
    ELSE RetTok(r1.t, "ExclamationMark")

\* '%'  '%='
BranchPercent(t) ==
    LET r1 == ConsumeCharAndPeek(t) IN
    IF r1.ch = "="
    THEN ConsumeCharAs(r1.t, "RemainderAssignment")
    ELSE RetTok(r1.t, "Percent")

\* '&'  '&&'  '&&='  '&='
BranchAmpersand(t) ==
    LET r1 == ConsumeCharAndPeek(t) IN
    IF r1.ch = "&"
    THEN LET r2 == ConsumeCharAndPeek(r1.t) IN
         IF r2.ch = "="
         THEN ConsumeCharAs(r2.t, "LogicalAndAssignment")
         ELSE RetTok(r2.t, "LogicalAnd")
    ELSE IF r1.ch = "="
         THEN ConsumeCharAs(r1.t, "BitwiseAndAssignment")
         ELSE RetTok(r1.t, "Ampersand")

\* '*'  '**'  '**='  '*='
BranchAsterisk(t) ==
    LET r1 == ConsumeCharAndPeek(t) IN
    IF r1.ch = "*"
    THEN LET r2 == ConsumeCharAndPeek(r1.t) IN
         IF r2.ch = "="
         THEN ConsumeCharAs(r2.t, "ExponentationAssignment")
         ELSE RetTok(r2.t, "Exponentation")
    ELSE IF r1.ch = "="
         THEN ConsumeCharAs(r1.t, "MultiplicationAssignment")
         ELSE RetTok(r1.t, "Asterisk")

\* '+'  '++'  '+='
BranchPlus(t) ==
    LET r1 == ConsumeCharAndPeek(t) IN
    IF r1.ch = "+"
    THEN ConsumeCharAs(r1.t, "Increment")
    ELSE IF r1.ch = "="
         THEN ConsumeCharAs(r1.t, "AdditionAssignment")
         ELSE RetTok(r1.t, "Plus")

\* '-'  '--'  '-='
BranchMinus(t) ==
    LET r1 == ConsumeCharAndPeek(t) IN
    IF r1.ch = "-"
    THEN ConsumeCharAs(r1.t, "Decrement")
    ELSE IF r1.ch = "="
         THEN ConsumeCharAs(r1.t, "SubtractionAssignment")
         ELSE RetTok(r1.t, "Minus")

\* '.'  '...': decided by two peek_char calls before anything is consumed.
BranchDot(t) ==
    LET r1 == PeekChar(t) IN
    IF r1.ch = "."
    THEN LET r2 == PeekChar(r1.t) IN
         IF r2.ch = "."
         THEN ConsumeCharAs(ConsumeChar(ConsumeChar(r2.t)), "Spread")
         ELSE ConsumeCharAs(r2.t, "Dot")
    ELSE ConsumeCharAs(r1.t, "Dot")

\* '/'  '/='  '//...'
BranchSlash(t) ==
    LET r1 == ConsumeCharAndPeek(t) IN
    IF r1.ch = "/"
    THEN ConsumeSingleLineComment(ConsumeChar(r1.t))
    ELSE IF r1.ch = "="
         THEN ConsumeCharAs(r1.t, "DivisonAssignment")
         ELSE RetTok(r1.t, "Slash")

\* '<'  '<<'  '<<='  '<='
BranchLess(t) ==
    LET r1 == ConsumeCharAndPeek(t) IN
    IF r1.ch = "<"
    THEN LET r2 == ConsumeCharAndPeek(r1.t) IN
         IF r2.ch = "="
         THEN ConsumeCharAs(r2.t, "LeftShiftAssignment")
         ELSE RetTok(r2.t, "LeftShift")
    ELSE IF r1.ch = "="
         THEN ConsumeCharAs(r1.t, "LessThanOrEqual")
         ELSE RetTok(r1.t, "LeftAngleBracket")

\* '='  '=='  '==='  '=>'
BranchEquals(t) ==
    LET r1 == ConsumeCharAndPeek(t) IN
    IF r1.ch = "="
    THEN LET r2 == ConsumeCharAndPeek(r1.t) IN
         IF r2.ch = "="
         THEN ConsumeCharAs(r2.t, "StrictEquality")
         ELSE RetTok(r2.t, "Equality")
    ELSE IF r1.ch = ">"
         THEN ConsumeCharAs(r1.t, "Arrow")
         ELSE RetTok(r1.t, "Assignment")

\* '>'  '>='  '>>'  '>>='  '>>>'  '>>>='; a lone '>' gives RightSquareBracket.
BranchGreater(t) ==
    LET r1 == ConsumeCharAndPeek(t) IN
    IF r1.ch = "="
    THEN ConsumeCharAs(r1.t, "GreaterThanOrEqual")
    ELSE IF r1.ch = ">"
         THEN LET r2 == ConsumeCharAndPeek(r1.t) IN
              IF r2.ch = "="
              THEN ConsumeCharAs(r2.t, "RightShiftAssignment")
              ELSE IF r2.ch = ">"
                   THEN LET r3 == ConsumeCharAndPeek(r2.t) IN
                        IF r3.ch = "="
                        THEN ConsumeCharAs(r3.t, "UnsignedRightShiftAssignment")
                        ELSE RetTok(r3.t, "UnsignedRightShift")
                   ELSE RetTok(r2.t, "RightShift")
         ELSE RetTok(r1.t, "RightSquareBracket")

\* '?'  '??'  '??='  '?.'
BranchQuestion(t) ==
    LET r1 == ConsumeCharAndPeek(t) IN
    IF r1.ch = "?"
    THEN LET r2 == ConsumeCharAndPeek(r1.t) IN
         IF r2.ch = "="
         THEN ConsumeCharAs(r2.t, "LogicalNullishAssignment")
         ELSE RetTok(r2.t, "NullishCoalescingOperator")
    ELSE IF r1.ch = "."
         THEN ConsumeCharAs(r1.t, "OptionalChaining")
         ELSE RetTok(r1.t, "QuestionMark")

\* '^'  '^='
BranchCaret(t) ==
    LET r1 == ConsumeCharAndPeek(t) IN
    IF r1.ch = "="
    THEN ConsumeCharAs(r1.t, "BitwiseXorAssignment")
    ELSE RetTok(r1.t, "Caret")

\* '|'  '||'  '||='  '|='
BranchPipe(t) ==
    LET r1 == ConsumeCharAndPeek(t) IN
    IF r1.ch = "|"
    THEN LET r2 == ConsumeCharAndPeek(r1.t) IN
         IF r2.ch = "="
         THEN ConsumeCharAs(r2.t, "LogicalOrAssignment")
         ELSE RetTok(r2.t, "LogicalOr")
    ELSE IF r1.ch = "="
         THEN ConsumeCharAs(r1.t, "BitwiseOrAssignment")
         ELSE RetTok(r1.t, "Pipe")

(***************************************************************************)
(* get_next_token: skip whitespace, clear the slice, dispatch on the       *)
(* character the whitespace loop ended with.  A character no arm matches   *)
(* hits todo!(): the token Panic stands for the process aborting.          *)
(***************************************************************************)
Dispatch(t, ch) ==
    CASE ch = None -> RetTok(t, None)
      [] ch # None /\ IsAlphabetic(ch) -> ConsumeIdentifier(t)
      [] ch # None /\ ~IsAlphabetic(ch) /\ IsNumeric(ch) -> ConsumeNumericLiteral(t)
      [] ch = "!" -> BranchExclamation(t)
      [] ch = "\"" -> ConsumeDoubleQuoteStringLiteral(t)
      [] ch = "%" -> BranchPercent(t)
      [] ch = "&" -> BranchAmpersand(t)
      [] ch = "'" -> ConsumeSingleQuoteStringLiteral(t)
      [] ch = "(" -> ConsumeCharAs(t, "LeftParenthesis")
      [] ch = ")" -> ConsumeCharAs(t, "RightParenthesis")
      [] ch = "*" -> BranchAsterisk(t)
      [] ch = "+" -> BranchPlus(t)
      [] ch = "," -> ConsumeCharAs(t, "Comma")
      [] ch = "-" -> BranchMinus(t)
      [] ch = "." -> BranchDot(t)
      [] ch = "/" -> BranchSlash(t)
      [] ch = ":" -> ConsumeCharAs(t, "Colon")
      [] ch = ";" -> ConsumeCharAs(t, "Semicolon")
      [] ch = "<" -> BranchLess(t)
      [] ch = "=" -> BranchEquals(t)
      [] ch = ">" -> BranchGreater(t)
      [] ch = "}" -> ConsumeCharAs(t, "RightBrace")
      [] ch = "?" -> BranchQuestion(t)
      [] ch = "[" -> ConsumeCharAs(t, "LeftSquareBracket")
      [] ch = "]" -> ConsumeCharAs(t, "RightSquareBracket")
      [] ch = "^" -> BranchCaret(t)
      [] ch = "{" -> ConsumeCharAs(t, "LeftBrace")
      [] ch = "|" -> BranchPipe(t)
      [] ch = "~" -> ConsumeCharAs(t, "Tilde")
      [] OTHER -> RetTok(t, Panic)

GetNextToken(t) ==
    LET r == SkipWhitespace(NextChar(t)) IN
    Dispatch([r.t EXCEPT !.slice = <<>>], r.ch)

\* Tokenizer::next_token and Tokenizer::slice.
TokenizerNextToken(t) == GetNextToken(t)
Slice(t) == t.slice

(***************************************************************************)
(* Source texts.  Texts over the lexical alphabet and over each operator   *)
(* family's alphabet up to MaxLen characters, two dots followed by a text  *)
(* of blanks, letters, quotes and backslashes, every keyword alone,        *)
(* followed by one more letter, or followed by a blank, and texts of       *)
(* slashes, newlines, letters and blanks.                                  *)
(***************************************************************************)
TextsOver(A, n) == UNION {[1..k -> A] : k \in 0..n}

LexAlphabet == {"a", "1", "_", " ", ".", "=", "\"", "\\"}
OpFamilies == {"=", "!", "*", "+", "-", "/", "%", "<", ">", "&", "|", "^", "?"}
OpAlphabet(c) == {c, "=", ">", ".", " "}
CommentAlphabet == {"/", "\n", "a", " "}
Keywords == {KwConst, KwImport, KwLet, KwVar}

Sources ==
    TextsOver(LexAlphabet, MaxLen)
        \cup UNION {TextsOver(OpAlphabet(c), MaxLen) : c \in OpFamilies}
        \cup {<<".", ".">> \o s : s \in TextsOver({" ", "a", "\"", "'", "\\"}, MaxLen)}
        \cup {kw \o s : kw \in Keywords, s \in TextsOver({"a", " "}, 1)}
        \cup TextsOver(CommentAlphabet, MaxLen)

\* parse_script has not returned / returned Ok(Script) / returned Err(ParseError).
NoResult == [kind |-> "none", body |-> <<>>, reason |-> <<>>]
OkScript(body) == [kind |-> "Script", body |-> body, reason |-> <<>>]
\* (body is the Script's BlockStatement)
ErrParseError(reason) == [kind |-> "ParseError", body |-> <<>>, reason |-> reason]

(***************************************************************************)
(* main with --tokenize-only: a tokenizer over the file's characters.      *)
(***************************************************************************)
Init ==
    /\ input \in Sources
    /\ tokenizer = NewTokenizer(input)
    /\ lookahead = None
    /\ preserve_comments = FALSE
    /\ pc = "tokenize"
    /\ out = <<>>
    /\ stmts = <<>>
    /\ import_specifiers = <<>>
    /\ result = NoResult

(***************************************************************************)
(* One turn of the --tokenize-only loop: next_token, then print the token  *)
(* and the slice; the loop (and main) ends when next_token returns None.   *)
(***************************************************************************)
Tokenize ==
    /\ pc = "tokenize"
    /\ Len(out) < MaxTokens
    /\ LET r == TokenizerNextToken(tokenizer) IN
        /\ tokenizer' = r.t
        /\ pc' = CASE r.tok = None -> "done"
                   [] r.tok = Panic -> "panic"
                   [] OTHER -> "tokenize"
        /\ out' = IF r.tok \in {None, Panic}
                  THEN out
                  ELSE Append(out, [token |-> r.tok, slice |-> Slice(r.t)])
    /\ UNCHANGED <<input, lookahead, preserve_comments, stmts, import_specifiers, result>>

Next == Tokenize

Spec == Init /\ [][Next]_vars

(***************************************************************************)
(* The parser.  A parser value p is [tokenizer, lookahead,                 *)
(* preserve_comments]; Option<T> in the tree is a sequence of at most one  *)
(* T.  A reason is the text of ParseError.reason: the characters that come *)
(* from the source, and each literal part of a message that no property    *)
(* looks into as one element.                                              *)
(***************************************************************************)
TheParser == [tokenizer |-> tokenizer, lookahead |-> lookahead,
              preserve_comments |-> preserve_comments]

\* A Parser::new that preserves comments.
NewParserPreserving(t) == [tokenizer |-> t, lookahead |-> None, preserve_comments |-> TRUE]

\* Parser::new
NewParser(t) == [tokenizer |-> t, lookahead |-> None, preserve_comments |-> FALSE]

\* A parser call's result: the parser after it and the token it returned.
RetPTok(p, token) == [p |-> p, tok |-> token]

\* A parsing function's result: the parser after it, how it ended and its value.
\* kind: "Some" / "None" (Ok(Some(val)) / Ok(None)), "Err" (val is the reason),
\* "Panic" (todo!()), "Loop" (control is at the head of parse_named_imports' loop).
Outcome(p, kind, val) == [p |-> p, kind |-> kind, val |-> val]

\* peek_token: the cached token if there is one, else the tokenizer's next token
\* r, which is cached (a None result leaves the cache empty).
PeekTokenFresh(p, r) ==
    RetPTok([p EXCEPT !.tokenizer = r.t,
                      !.lookahead = IF r.tok = Panic THEN None ELSE r.tok],
            r.tok)

PeekToken(p) ==
    IF p.lookahead # None
    THEN RetPTok(p, p.lookahead)
    ELSE PeekTokenFresh(p, TokenizerNextToken(p.tokenizer))

\* Parser::next_token: takes the cached token, else pulls r from the tokenizer.
ParserNextTokenFresh(p, r) == RetPTok([p EXCEPT !.tokenizer = r.t], r.tok)

ParserNextToken(p) ==
    IF p.lookahead # None
    THEN RetPTok([p EXCEPT !.lookahead = None], p.lookahead)
    ELSE ParserNextTokenFresh(p, TokenizerNextToken(p.tokenizer))

\* expect_token, r being what next_token returned.
ExpectTokenMatch(r, expected) ==
    CASE r.tok = Panic -> Outcome(r.p, "Panic", <<>>)
      [] r.tok = expected -> Outcome(r.p, "Some", <<>>)
      [] OTHER -> Outcome(r.p, "Err",
                          <<"Expected token ", expected, ", but was ", r.tok>>)

ExpectToken(p, expected) == ExpectTokenMatch(ParserNextToken(p), expected)

\* "Unexpected token: "
UnexpectedToken ==
    <<"U", "n", "e", "x", "p", "e", "c", "t", "e", "d", " ",
      "t", "o", "k", "e", "n", ":", " ">>
\* The reason of parse_from_clause's errors (the source quotes the word from).
FromExpected == <<"from expected">>
\* "from"
From == <<"f", "r", "o", "m">>

\* The tree's nodes.
Comment == [type |-> "Comment"]
ImportDeclaration(import_clause, module_specifier) ==
    [type |-> "ImportDeclaration", import_clause |-> import_clause,
     module_specifier |-> module_specifier]
NamedImports(specifiers) == [type |-> "NamedImports", specifiers |-> specifiers]
ModuleSpecifier(value) == [value |-> value]
Identifier(value) == [value |-> value]
VariableStatement(binding_identifier, initializer) ==
    [type |-> "VariableStatement", binding_identifier |-> binding_identifier,
     initializer |-> initializer]
BlockStatement(body) == [stmts |-> body]
Script(body) == [body |-> body]

\* parse_comment
ParseComment(p) == Outcome(p, "Some", Comment)

\* A parse_module_specifier that strips the quotes from the literal.
ModuleSpecifierUnquoted(e) ==
    IF e.kind = "Some"
    THEN Outcome(e.p, "Some",
                 ModuleSpecifier(SubSeq(Slice(e.p.tokenizer), 2,
                                        Len(Slice(e.p.tokenizer)) - 1)))
    ELSE e

\* parse_module_specifier: k is what peek_token returned, e what expect_token did.
ModuleSpecifierExpected(e) ==
    IF e.kind = "Some"
    THEN Outcome(e.p, "Some", ModuleSpecifier(Slice(e.p.tokenizer)))
    ELSE e

ModuleSpecifierPeeked(k) ==
    CASE k.tok = Panic -> Outcome(k.p, "Panic", <<>>)
      [] k.tok = "StringLiteral" ->
            ModuleSpecifierExpected(ExpectToken(k.p, "StringLiteral"))
      [] OTHER -> Outcome(k.p, "None", <<>>)

ParseModuleSpecifier(p) == ModuleSpecifierPeeked(PeekToken(p))

\* parse_from_clause: r is what next_token returned.
FromClauseNext(r) ==
    CASE r.tok = Panic -> Outcome(r.p, "Panic", <<>>)
      [] r.tok = None -> Outcome(r.p, "Err", FromExpected)
      [] OTHER ->
            IF Slice(r.p.tokenizer) # From
            THEN Outcome(r.p, "Err", FromExpected)
            ELSE ParseModuleSpecifier(r.p)

ParseFromClause(p) == FromClauseNext(ParserNextToken(p))

\* A parse_import_declaration for which the from clause is optional.
WithFromClauseOptional(f, import_clause) ==
    CASE f.kind = "Some" ->
            Outcome(f.p, "Some", ImportDeclaration(<<import_clause>>, f.val))
      [] f.kind = "None" -> Outcome(f.p, "None", <<>>)
      [] OTHER -> f

\* parse_import_declaration from the point where parse_import_clause has returned
\* Ok(Some(import_clause)): the from clause f is required.
WithFromClause(f, import_clause) ==
    CASE f.kind = "Some" ->
            Outcome(f.p, "Some", ImportDeclaration(<<import_clause>>, f.val))
      [] f.kind = "None" -> Outcome(f.p, "Err", <<"Expression expected.">>)
      [] OTHER -> f

ImportDeclarationWithClause(p, import_clause) ==
    WithFromClause(ParseFromClause(p), import_clause)

\* parse_import_declaration from the point where parse_import_clause has returned
\* Ok(None): a bare module specifier m, or an error.
WithModuleSpecifier(m) ==
    CASE m.kind = "Some" -> Outcome(m.p, "Some", ImportDeclaration(<<>>, m.val))
      [] m.kind = "None" -> Outcome(m.p, "Err", <<"Declaration or statement expected.">>)
      [] OTHER -> m

ImportDeclarationWithoutClause(p) == WithModuleSpecifier(ParseModuleSpecifier(p))

\* parse_named_imports up to its loop: expect_token(LeftBrace) returned e.
NamedImportsExpected(e) == IF e.kind = "Some" THEN Outcome(e.p, "Loop", <<>>) ELSE e

\* parse_import_clause: k is what peek_token returned.
ImportClausePeeked(k) ==
    CASE k.tok = Panic -> Outcome(k.p, "Panic", <<>>)
      [] k.tok = "LeftBrace" -> NamedImportsExpected(ExpectToken(k.p, "LeftBrace"))
      [] OTHER -> ImportDeclarationWithoutClause(k.p)

\* parse_import_declaration up to the loop of parse_named_imports (through
\* parse_import_clause, and parse_named_imports' expect_token), or to its end when
\* no brace follows.
ParseImportDeclaration(p) == ImportClausePeeked(PeekToken(p))

\* A parser_binding_identifier that reads the slice after peeking the next token.
BindingIdentifierNextLate(r) ==
    Outcome(PeekToken(r.p).p, "Some", Identifier(Slice(PeekToken(r.p).p.tokenizer)))

\* parser_binding_identifier: k is what peek_token returned, r what next_token did.
BindingIdentifierNext(r) == Outcome(r.p, "Some", Identifier(Slice(r.p.tokenizer)))

BindingIdentifierPeeked(k) ==
    CASE k.tok = Panic -> Outcome(k.p, "Panic", <<>>)
      [] k.tok = "IdentifierName" -> BindingIdentifierNext(ParserNextToken(k.p))
      [] OTHER -> Outcome(k.p, "None", <<>>)

ParserBindingIdentifier(p) == BindingIdentifierPeeked(PeekToken(p))

\* A parse_assignment_expression stubbed with Ok(None).
ParseAssignmentExpressionStub(p) == Outcome(p, "None", <<>>)

\* parse_assignment_expression: todo!()
ParseAssignmentExpression(p) == Outcome(p, "Panic", <<>>)

\* parse_initializer: k is what peek_token returned.
InitializerPeeked(k) ==
    CASE k.tok = Panic -> Outcome(k.p, "Panic", <<>>)
      [] k.tok = "Assignment" -> ParseAssignmentExpression(ParserNextToken(k.p).p)
      [] OTHER -> Outcome(k.p, "None", <<>>)

ParseInitializer(p) == InitializerPeeked(PeekToken(p))

\* parse_variable_declaration: b is what parser_binding_identifier returned, i what
\* parse_initializer did; without a binding identifier it hits todo!() (whose
\* message takes one more token first).
WithInitializer(i, binding_identifier) ==
    IF i.kind = "None"
    THEN Outcome(i.p, "Some", VariableStatement(binding_identifier, <<>>))
    ELSE i

WithBindingIdentifier(b) ==
    CASE b.kind = "Some" -> WithInitializer(ParseInitializer(b.p), b.val)
      [] b.kind = "None" -> Outcome(ParserNextToken(b.p).p, "Panic", <<>>)
      [] OTHER -> b

ParseVariableDeclaration(p) == WithBindingIdentifier(ParserBindingIdentifier(p))

\* parse_statement: Ok(None) at the end of the token stream; r is what next_token
\* returned.
RECURSIVE ParseStatement(_)
StatementNext(r) ==
    CASE r.tok = None -> Outcome(r.p, "None", <<>>)
      [] r.tok = Panic -> Outcome(r.p, "Panic", <<>>)
      [] r.tok = "SingleLineComment" ->
            IF r.p.preserve_comments THEN ParseComment(r.p) ELSE ParseStatement(r.p)
      [] r.tok = "ImportKeyword" -> ParseImportDeclaration(r.p)
      [] r.tok \in {"ConstKeyword", "LetKeyword", "VarKeyword"} ->
            ParseVariableDeclaration(r.p)
      [] OTHER -> Outcome(r.p, "Err", UnexpectedToken \o Slice(r.p.tokenizer))

ParseStatement(p) == StatementNext(ParserNextToken(p))

(***************************************************************************)
(* Source texts for the parser: up to MaxUnits statement-sized texts       *)
(* (well-formed and malformed) joined by blanks or by newlines, with and   *)
(* without a final newline; named imports with up to MaxItems identifiers  *)
(* and commas between the braces; bare imports; and up to MaxUnits         *)
(* well-formed declarations with a comment line before each.               *)
(***************************************************************************)
Sp == <<" ">>
Nl == <<"\n">>
LitM == <<"\"", "m", "\"">>
LitEscaped == <<"\"", "a", "\\", "\"", "b", "\"">>
LitSingle == <<"'", "m", " ", "x", "'">>
Literals == {LitM, LitEscaped, LitSingle}

RECURSIVE Join(_, _)
Join(texts, sep) ==
    IF texts = <<>>
    THEN <<>>
    ELSE IF Len(texts) = 1
         THEN Head(texts)
         ELSE Head(texts) \o sep \o Join(Tail(texts), sep)

ItemTexts == {<<"a">>, <<"b", "1">>, <<",">>}
ItemLists == TextsOver(ItemTexts, MaxItems)

NamedImportText(items, lit) ==
    Join(<<KwImport, <<"{">>>> \o items \o <<<<"}">>, From, lit>>, Sp)

BareImportText(sep, lit) == KwImport \o sep \o lit

Units ==
    { KwImport \o Sp \o LitM,
      KwImport \o LitSingle,
      NamedImportText(<<<<"a">>, <<",">>, <<"b", "1">>>>, LitM),
      KwLet \o Sp \o <<"x">>,
      KwConst \o Sp \o <<"a", "b">>,
      KwVar \o Sp \o <<"x">> \o Sp,
      KwLet \o Sp \o <<"x">> \o Sp \o <<"=">> \o Sp \o <<"1">>,
      KwLet \o Sp \o <<"=">>,
      KwLet,
      KwImport,
      KwImport \o Sp \o <<"a">>,
      KwImport \o Sp \o <<"{">> \o Sp \o <<"a">>,
      KwImport \o Sp \o <<"{", "1", "}">>,
      KwImport \o Sp \o <<"{", "a", "}">> \o Sp \o LitM,
      KwImport \o Sp \o <<"{", "a", "}">> \o Sp \o From,
      KwImport \o Sp \o <<"{", "a", "}">> \o Sp \o From \o Sp \o <<"x">>,
      <<"}">>,
      <<"a">>,
      <<"1", "2">>,
      <<"=", "=">>,
      LitM,
      <<"/", "/", "c">>,
      <<"_">> }

\* Well-formed declarations, each with the statement the grammar gives it.
Declaration(text, stmt) == [text |-> text, stmt |-> stmt]
WellFormedDeclarations ==
    { Declaration(KwImport \o Sp \o LitM, ImportDeclaration(<<>>, ModuleSpecifier(LitM))),
      Declaration(KwImport \o LitSingle, ImportDeclaration(<<>>, ModuleSpecifier(LitSingle))),
      Declaration(NamedImportText(<<<<"a">>, <<",">>, <<"b", "1">>>>, LitM),
                  ImportDeclaration(<<NamedImports(<<<<"a">>, <<"b", "1">>>>)>>,
                                    ModuleSpecifier(LitM))),
      Declaration(KwLet \o Sp \o <<"x">>, VariableStatement(Identifier(<<"x">>), <<>>)),
      Declaration(KwConst \o Sp \o <<"a", "b">>,
                  VariableStatement(Identifier(<<"a", "b">>), <<>>)),
      Declaration(KwVar \o Sp \o <<"x">> \o Sp,
                  VariableStatement(Identifier(<<"x">>), <<>>)) }

\* The texts, and the statements, of a sequence of declarations.
TextsOf(ds) == [i \in 1..Len(ds) |-> ds[i].text]
StmtsOf(ds) == [i \in 1..Len(ds) |-> ds[i].stmt]

\* Comment lines, and the declarations ds with the comment line before each.
CommentLines == {<<"/", "/", "c">>, <<"/", "/">>, <<"/", "/", " ">> \o KwLet \o Sp \o <<"x">>}
RECURSIVE CommentedUnits(_, _)
CommentedUnits(texts, comment) ==
    IF texts = <<>>
    THEN <<>>
    ELSE <<comment, Head(texts)>> \o CommentedUnits(Tail(texts), comment)
CommentedText(ds, comment) == Join(CommentedUnits(TextsOf(ds), comment), Nl)

ParseSources ==
    {Join(us, sep) \o end : us \in TextsOver(Units, MaxUnits),
                            sep \in {Sp, Nl}, end \in {<<>>, Nl}}
        \cup {NamedImportText(items, lit) \o end :
                 items \in ItemLists, lit \in Literals, end \in {<<>>, Nl}}
        \cup {BareImportText(sep, lit) \o end :
                 sep \in {<<>>, Sp}, lit \in Literals, end \in {<<>>, Nl}}
        \cup {CommentedText(ds, comment) \o end :
                 ds \in TextsOver(WellFormedDeclarations, MaxUnits),
                 comment \in CommentLines, end \in {<<>>, Nl}}

(***************************************************************************)
(* main without --tokenize-only: a parser over a tokenizer over the file's *)
(* characters, about to call parse_script.                                 *)
(***************************************************************************)
InitParse ==
    /\ input \in ParseSources
    /\ tokenizer = NewParser(NewTokenizer(input)).tokenizer
    /\ lookahead = NewParser(NewTokenizer(input)).lookahead
    /\ preserve_comments = NewParser(NewTokenizer(input)).preserve_comments
    /\ pc = "parse_script"
    /\ out = <<>>
    /\ stmts = <<>>
    /\ import_specifiers = <<>>
    /\ result = NoResult

\* What a parsing function's outcome o makes of the driver's position, the
\* statements collected, and parse_script's result (the ? operator returns an
\* Err at once; Ok(None) ends the loop and returns the Script).
PcAfter(o) ==
    CASE o.kind = "Some" -> "parse_script"
      [] o.kind = "Loop" -> "named_imports"
      [] o.kind = "Panic" -> "panic"
      [] OTHER -> "done"
StmtsAfter(o) == IF o.kind = "Some" THEN Append(stmts, o.val) ELSE stmts
ResultAfter(o) ==
    CASE o.kind = "None" -> OkScript(BlockStatement(stmts))
      [] o.kind = "Err" -> ErrParseError(o.val)
      [] OTHER -> result

(***************************************************************************)
(* One turn of parse_script's loop: parse_statement, up to its return or   *)
(* up to the head of parse_named_imports' loop; o is how it ended.         *)
(***************************************************************************)
Continue(o) ==
    /\ tokenizer' = o.p.tokenizer
    /\ lookahead' = o.p.lookahead
    /\ preserve_comments' = o.p.preserve_comments
    /\ pc' = PcAfter(o)
    /\ stmts' = StmtsAfter(o)
    /\ result' = ResultAfter(o)

ParseScript ==
    /\ pc = "parse_script"
    /\ Continue(ParseStatement(TheParser))
    /\ import_specifiers' = <<>>
    /\ UNCHANGED <<input, out>>

(***************************************************************************)
(* One turn of parse_named_imports' loop; r is what next_token returned.   *)
(* On the closing brace the loop ends and parse_import_declaration runs to *)
(* its return.                                                             *)
(***************************************************************************)
\* A parse_named_imports loop with no arm for the comma.
NamedImportsNextNoComma(r, specifiers) ==
    CASE r.tok = Panic -> Outcome(r.p, "Panic", <<>>)
      [] r.tok = "IdentifierName" -> Outcome(r.p, "Loop", <<Slice(r.p.tokenizer)>>)
      [] r.tok = "RightBrace" -> ImportDeclarationWithClause(r.p, NamedImports(specifiers))
      [] OTHER -> Outcome(r.p, "Err", <<"Identifier expected">>)

NamedImportsNext(r, specifiers) ==
    CASE r.tok = Panic -> Outcome(r.p, "Panic", <<>>)
      [] r.tok = "IdentifierName" -> Outcome(r.p, "Loop", <<Slice(r.p.tokenizer)>>)
      [] r.tok = "Comma" -> Outcome(r.p, "Loop", <<>>)
      [] r.tok = "RightBrace" -> ImportDeclarationWithClause(r.p, NamedImports(specifiers))
      [] OTHER -> Outcome(r.p, "Err", <<"Identifier expected">>)

NamedImportsTurn(p, specifiers) == NamedImportsNext(ParserNextToken(p), specifiers)

ContinueNamedImports(o) ==
    /\ o.kind = "Loop" => Len(import_specifiers \o o.val) <= MaxSpecifiers
    /\ Continue(o)
    /\ import_specifiers' = IF o.kind = "Loop" THEN import_specifiers \o o.val ELSE <<>>

ParseNamedImports ==
    /\ pc = "named_imports"
    /\ ContinueNamedImports(NamedImportsTurn(TheParser, import_specifiers))
    /\ UNCHANGED <<input, out>>

NextParse == ParseScript \/ ParseNamedImports

SpecParse == InitParse /\ [][NextParse]_vars

(***************************************************************************)
(* The parser's token interface on its own: a parser over a tokenizer, and *)
(* peek_token and next_token called in any order, as the parsing functions *)
(* do.  result holds what the last call returned, out what next_token has  *)
(* returned so far with the slice read right after it (the end of stream   *)
(* and an abort close it).                                                 *)
(***************************************************************************)
Returned(call, token) == [kind |-> call, body |-> token, reason |-> <<>>]

InitLookahead ==
    /\ input \in Sources
    /\ tokenizer = NewParser(NewTokenizer(input)).tokenizer
    /\ lookahead = NewParser(NewTokenizer(input)).lookahead
    /\ preserve_comments = NewParser(NewTokenizer(input)).preserve_comments
    /\ pc = "calls"
    /\ out = <<>>
    /\ stmts = <<>>
    /\ import_specifiers = <<>>
    /\ result = NoResult

\* The parser after a call that returned r.
ParserAfter(r) ==
    /\ tokenizer' = r.p.tokenizer
    /\ lookahead' = r.p.lookahead
    /\ preserve_comments' = r.p.preserve_comments

AfterPeekToken(k) ==
    /\ ParserAfter(k)
    /\ result' = Returned("peek_token", k.tok)
    /\ pc' = IF k.tok = Panic THEN "panic" ELSE "calls"

PeekTokenCall ==
    /\ pc = "calls"
    /\ AfterPeekToken(PeekToken(TheParser))
    /\ UNCHANGED <<input, out, stmts, import_specifiers>>

AfterNextToken(r) ==
    /\ ParserAfter(r)
    /\ result' = Returned("next_token", r.tok)
    /\ out' = Append(out, [token |-> r.tok,
                           slice |-> IF r.tok \in {None, Panic}
                                     THEN <<>>
                                     ELSE Slice(r.p.tokenizer)])
    /\ pc' = CASE r.tok = None -> "done"
               [] r.tok = Panic -> "panic"
               [] OTHER -> "calls"

NextTokenCall ==
    /\ pc = "calls"
    /\ Len(out) < MaxTokens
    /\ AfterNextToken(ParserNextToken(TheParser))
    /\ UNCHANGED <<input, stmts, import_specifiers>>

NextLookahead == PeekTokenCall \/ NextTokenCall

SpecLookahead == InitLookahead /\ [][NextLookahead]_vars


(***************************************************************************)
(* Vocabulary of the properties.                                           *)
(***************************************************************************)
\* The characters of the source the tokenizer has not committed to a slice.
Unconsumed(t) == t.lookaheads \o t.chars

IsPrefix(p, s) == Len(p) <= Len(s) /\ SubSeq(s, 1, Len(p)) = p

RECURSIVE DropWhitespace(_)
DropWhitespace(s) ==
    IF s # <<>> /\ IsWhitespace(Head(s)) THEN DropWhitespace(Tail(s)) ELSE s

\* The leading whitespace of s.
LeadingWhitespace(s) == SubSeq(s, 1, Len(s) - Len(DropWhitespace(s)))

\* The step printed a token.
TokenReturned == pc = "tokenize" /\ Len(out') = Len(out) + 1
LastOut == out[Len(out)]

WordTokens == {"IdentifierName", "ConstKeyword", "ImportKeyword", "LetKeyword", "VarKeyword"}
IsContinuation(c) == IsAlphanumeric(c) \/ c = "_"

\* What a tokenizer returns from here on, up to n tokens: [token, slice] records,
\* closed by None (end of stream) or Panic when that comes within n calls.
RECURSIVE TokensFrom(_, _)
TokensFrom(t, n) ==
    IF n = 0
    THEN <<>>
    ELSE LET r == TokenizerNextToken(t) IN
         IF r.tok \in {None, Panic}
         THEN <<[token |-> r.tok, slice |-> <<>>]>>
         ELSE <<[token |-> r.tok, slice |-> Slice(r.t)]>> \o TokensFrom(r.t, n - 1)

(***************************************************************************)
(* C1.  Repeated next_token calls return finitely many tokens and then     *)
(* end-of-stream: a call that returns a token removes at least one         *)
(* character from the unconsumed input, so no run of calls keeps           *)
(* returning tokens over an input that no longer shrinks.                  *)
(***************************************************************************)
C1_EveryTokenRemovesACharacter ==
    [][TokenReturned =>
        Len(Unconsumed(tokenizer')) < Len(Unconsumed(tokenizer))]_vars

(***************************************************************************)
(* C2.  Slice fidelity: after a call that returns a token, the input that  *)
(* was unconsumed before the call is its leading whitespace, then the      *)
(* slice, then what is still unconsumed; the slice is not empty, and the   *)
(* slice of an identifier, keyword or number does not stop short of a      *)
(* character that continues it.  (Step by step this gives the round trip:  *)
(* the slices in order are the input without the whitespace between        *)
(* tokens.)                                                                *)
(***************************************************************************)
C2_SliceFidelity ==
    [][TokenReturned =>
        LET before == Unconsumed(tokenizer)
            after == Unconsumed(tokenizer')
            s == Slice(tokenizer')
        IN  /\ s # <<>>
            /\ before = LeadingWhitespace(before) \o s \o after
            /\ out'[Len(out')].slice = s
            /\ (out'[Len(out')].token \in WordTokens \cup {"NumericLiteral"} /\ after # <<>>)
                   => ~IsContinuation(Head(after))]_vars

(***************************************************************************)
(* C3.  Keyword boundary: an input that is exactly a keyword's text gives  *)
(* exactly one token, that keyword, with the whole input as its slice, and *)
(* then end-of-stream; an input that is a keyword followed by one more     *)
(* letter gives exactly one IdentifierName, and then end-of-stream.        *)
(***************************************************************************)
C3_KeywordBoundary ==
    /\ (input \in Keywords /\ out # <<>>)
           => out = <<[token |-> KeywordOf(input), slice |-> input]>>
    /\ (input \in {kw \o <<"a">> : kw \in Keywords} /\ out # <<>>)
           => out = <<[token |-> "IdentifierName", slice |-> input]>>
    /\ (input \in Keywords \cup {kw \o <<"a">> : kw \in Keywords})
           => pc # "panic"

(***************************************************************************)
(* The multi-character operator forms of the Token enumeration, each with  *)
(* its text as the enumeration documents it.                               *)
(***************************************************************************)
Form(text, token) == [text |-> text, token |-> token]

OperatorForms ==
    { Form(<<"=", "=">>, "Equality"),
      Form(<<"=", "=", "=">>, "StrictEquality"),
      Form(<<"=", ">">>, "Arrow"),
      Form(<<"!", "=">>, "Inequality"),
      Form(<<"!", "=", "=">>, "StrictInequality"),
      Form(<<"*", "*">>, "Exponentation"),
      Form(<<"*", "*", "=">>, "ExponentationAssignment"),
      Form(<<"*", "=">>, "MultiplicationAssignment"),
      Form(<<"+", "+">>, "Increment"),
      Form(<<"+", "=">>, "AdditionAssignment"),
      Form(<<"-", "-">>, "Decrement"),
      Form(<<"-", "=">>, "SubtractionAssignment"),
      Form(<<"/", "=">>, "DivisonAssignment"),
      Form(<<"%", "=">>, "RemainderAssignment"),
      Form(<<"<", "<">>, "LeftShift"),
      Form(<<"<", "<", "=">>, "LeftShiftAssignment"),
      Form(<<"<", "=">>, "LessThanOrEqual"),
      Form(<<">", "=">>, "GreaterThanOrEqual"),
      Form(<<">", ">">>, "RightShift"),
      Form(<<">", ">", "=">>, "RightShiftAssignment"),
      Form(<<">", ">", ">">>, "UnsignedRightShift"),
      Form(<<">", ">", ">", "=">>, "UnsignedRightShiftAssignment"),
      Form(<<"&", "&">>, "LogicalAnd"),
      Form(<<"&", "&", "=">>, "LogicalAndAssignment"),
      Form(<<"&", "=">>, "BitwiseAndAssignment"),
      Form(<<"|", "|">>, "LogicalOr"),
      Form(<<"|", "|", "=">>, "LogicalOrAssignment"),
      Form(<<"|", "=">>, "BitwiseOrAssignment"),
      Form(<<"^", "=">>, "BitwiseXorAssignment"),
      Form(<<"?", "?">>, "NullishCoalescingOperator"),
      Form(<<"?", "?", "=">>, "LogicalNullishAssignment"),
      Form(<<"?", ".">>, "OptionalChaining") }

\* The punctuation and operator tokens: every token that is not a word, a number,
\* a string or a comment.
PunctuationTokens ==
    {f.token : f \in OperatorForms} \cup
    { "Assignment", "ExclamationMark", "Asterisk", "Plus", "Minus", "Slash", "Percent",
      "LeftAngleBracket", "RightAngleBracket", "Ampersand", "Pipe", "Caret",
      "QuestionMark", "Dot", "Spread", "Colon", "Comma", "Semicolon", "Tilde",
      "LeftBrace", "RightBrace", "LeftParenthesis", "RightParenthesis",
      "LeftSquareBracket", "RightSquareBracket" }

FormsAt(rest) == {f \in OperatorForms : IsPrefix(f.text, rest)}
LongestFormAt(rest) ==
    CHOOSE f \in FormsAt(rest) : \A g \in FormsAt(rest) : Len(g.text) <= Len(f.text)

(***************************************************************************)
(* C4.  Longest-match operators: when the unconsumed input, after its      *)
(* leading whitespace, begins with a multi-character operator form,        *)
(* next_token returns the token of the longest form that is a prefix of    *)
(* it, and the slice is that form.                                         *)
(***************************************************************************)
C4_LongestMatchOperators ==
    [][LET rest == DropWhitespace(Unconsumed(tokenizer)) IN
       (pc = "tokenize" /\ FormsAt(rest) # {}) =>
           out' = Append(out, [token |-> LongestFormAt(rest).token,
                               slice |-> LongestFormAt(rest).text])]_vars

(***************************************************************************)
(* C5.  Operator disambiguation takes nothing from the next token: once    *)
(* next_token has returned a punctuation or operator token, the calls that *)
(* follow return the tokens and slices a fresh tokenizer returns on the    *)
(* rest of the input.                                                      *)
(***************************************************************************)
C5_OperatorLeavesRestIntact ==
    (pc = "tokenize" /\ out # <<>> /\ LastOut.token \in PunctuationTokens) =>
        TokensFrom(tokenizer, MaxTokens)
            = TokensFrom(NewTokenizer(Unconsumed(tokenizer)), MaxTokens)

(***************************************************************************)
(* C6.  String literals: when the first significant character of the       *)
(* unconsumed input is a quote and the same quote occurs later without a   *)
(* backslash right before it, next_token returns StringLiteral and the     *)
(* slice runs from the opening quote to the first such occurrence, both    *)
(* included.                                                               *)
(***************************************************************************)
ClosingQuotes(rest) == {i \in 2..Len(rest) : rest[i] = rest[1] /\ rest[i - 1] # "\\"}
ClosingQuote(rest) == CHOOSE i \in ClosingQuotes(rest) : \A j \in ClosingQuotes(rest) : i <= j

C6_StringLiteralExtent ==
    [][LET rest == DropWhitespace(Unconsumed(tokenizer)) IN
       (pc = "tokenize" /\ rest # <<>> /\ Head(rest) \in {"\"", "'"}
            /\ ClosingQuotes(rest) # {}) =>
           out' = Append(out, [token |-> "StringLiteral",
                               slice |-> SubSeq(rest, 1, ClosingQuote(rest))])]_vars

(***************************************************************************)
(* C7.  Named import: for an input import { items } from literal, with     *)
(* identifiers and commas in any arrangement between the braces,           *)
(* parse_script neither aborts nor fails, collects the identifiers in      *)
(* written order (never more than were written), and returns a             *)
(* Script with exactly one ImportDeclaration whose clause is NamedImports  *)
(* of the identifiers in written order (duplicates kept, commas giving     *)
(* nothing) and whose module specifier is the literal with its quotes.     *)
(***************************************************************************)
IsIdentifierItem(item) == item # <<",">>
NamedImportScript(items, lit) ==
    OkScript(BlockStatement(
        <<ImportDeclaration(<<NamedImports(SelectSeq(items, IsIdentifierItem))>>,
                            ModuleSpecifier(lit))>>))

NamedImportCases ==
    {[text |-> NamedImportText(items, lit) \o end, items |-> items, lit |-> lit] :
        items \in ItemLists, lit \in Literals, end \in {<<>>, Nl}}

C7_NamedImportParse ==
    \A c \in NamedImportCases :
        input = c.text =>
            /\ pc # "panic"
            /\ result.kind # "ParseError"
            /\ IsPrefix(import_specifiers, SelectSeq(c.items, IsIdentifierItem))
            /\ pc = "done" => result = NamedImportScript(c.items, c.lit)

C7_Witness ==
    /\ input = NamedImportText(<<<<"a">>, <<",">>, <<",">>, <<"a">>, <<"b", "1">>, <<",">>>>, LitEscaped)
           \/ input = NamedImportText(<<<<"a">>, <<",">>, <<"a">>>>, LitEscaped)
    /\ pc = "done"
    /\ result.kind = "Script"
    /\ Len(result.body.stmts) = 1
    /\ Len(result.body.stmts[1].import_clause[1].specifiers) >= 2

(***************************************************************************)
(* C8.  Bare import: for an input that is the import keyword followed      *)
(* directly by a string literal, parse_script neither aborts nor fails and *)
(* returns a Script with exactly one ImportDeclaration that has no import  *)
(* clause and whose module specifier is the literal's full quoted text.    *)
(***************************************************************************)
BareImportScript(lit) ==
    OkScript(BlockStatement(<<ImportDeclaration(<<>>, ModuleSpecifier(lit))>>))

C8_BareImportParse ==
    \A sep \in {<<>>, Sp}, lit \in Literals, end \in {<<>>, Nl} :
        input = BareImportText(sep, lit) \o end =>
            /\ pc # "panic"
            /\ result.kind # "ParseError"
            /\ pc = "done" => result = BareImportScript(lit)

C8_Witness ==
    /\ input = BareImportText(Sp, LitM)
    /\ pc = "done"
    /\ result = BareImportScript(LitM)

(***************************************************************************)
(* C9.  Variable declaration without initializer: for an input that is     *)
(* const, let or var, a blank, one identifier and nothing else,            *)
(* parse_script neither aborts nor fails and returns a Script with exactly *)
(* one VariableStatement whose binding identifier is the identifier's text *)
(* and whose initializer is absent.                                        *)
(***************************************************************************)
VariableScript(id) ==
    OkScript(BlockStatement(<<VariableStatement(Identifier(id), <<>>)>>))

C9_VariableDeclarationParse ==
    \A kw \in {KwConst, KwLet, KwVar}, id \in {<<"x">>, <<"a", "b">>} :
        input = kw \o Sp \o id =>
            /\ pc # "panic"
            /\ result.kind # "ParseError"
            /\ pc = "done" => result = VariableScript(id)

(***************************************************************************)
(* The source text of the token that starts a text (a text with no leading *)
(* whitespace that starts a token): the longest run of identifier or       *)
(* number characters, the string literal, the spread, the longest          *)
(* operator form, or the single character.                                 *)
(***************************************************************************)
RECURSIVE RunOf(_, _)
RunOf(rest, class) ==
    IF rest # <<>> /\ Head(rest) \in class
    THEN <<Head(rest)>> \o RunOf(Tail(rest), class)
    ELSE <<>>

Lexeme(rest) ==
    CASE IsAlphabetic(Head(rest)) -> RunOf(rest, Letters \cup Digits \cup {"_"})
      [] IsNumeric(Head(rest)) -> RunOf(rest, Digits \cup {"_"})
      [] Head(rest) \in {"\"", "'"} ->
            IF ClosingQuotes(rest) # {} THEN SubSeq(rest, 1, ClosingQuote(rest)) ELSE rest
      [] IsPrefix(<<".", ".", ".">>, rest) -> <<".", ".", ".">>
      [] FormsAt(rest) # {} -> LongestFormAt(rest).text
      [] OTHER -> <<Head(rest)>>

\* The characters the tokenizer has an arm for.
Recognized(c) ==
    \/ IsAlphabetic(c)
    \/ IsNumeric(c)
    \/ c \in {"!", "\"", "%", "&", "'", "(", ")", "*", "+", ",", "-", ".", "/", ":", ";",
              "<", "=", ">", "}", "?", "[", "]", "^", "{", "|", "~"}

Contains(text, part) ==
    \E i \in 1..(Len(text) - Len(part) + 1) : SubSeq(text, i, i + Len(part) - 1) = part

(***************************************************************************)
(* C10.  Unexpected leading token: when parse_statement pulls its first    *)
(* token from the tokenizer and that token is neither a single-line        *)
(* comment nor import, const, let or var, parse_script returns a           *)
(* ParseError whose reason contains the source text of that token.         *)
(***************************************************************************)
OffendingStart(rest) ==
    /\ rest # <<>>
    /\ Recognized(Head(rest))
    /\ ~IsPrefix(<<"/", "/">>, rest)
    /\ Lexeme(rest) \notin Keywords

C10_UnexpectedLeadingToken ==
    [][LET rest == DropWhitespace(Unconsumed(tokenizer)) IN
       (pc = "parse_script" /\ lookahead = None /\ OffendingStart(rest)) =>
           /\ pc' = "done"
           /\ result'.kind = "ParseError"
           /\ Contains(result'.reason, Lexeme(rest))]_vars

(***************************************************************************)
(* C11.  Import clause needs from and a literal: a statement with an       *)
(* import clause is only ever added by the step that takes the closing     *)
(* brace, and only when the token after the brace has the text from and    *)
(* the token after that starts with a quote, whose text becomes the module *)
(* specifier; when the brace is followed by another token (or by the end   *)
(* of input) in either place, parse_script returns a ParseError.           *)
(***************************************************************************)
HasImportClause(stmt) == stmt.type = "ImportDeclaration" /\ stmt.import_clause # <<>>
\* s starts a token or is the end of the input (no unrecognized character).
TokenOrEnd(s) == s = <<>> \/ Recognized(Head(s))
FromAt(s) == s # <<>> /\ Lexeme(s) = From
AfterFrom(s) == DropWhitespace(SubSeq(s, Len(From) + 1, Len(s)))
LiteralAt(s) == s # <<>> /\ Head(s) \in {"\"", "'"}
FromAndLiteralAt(s) == FromAt(s) /\ LiteralAt(AfterFrom(s))
FromOrLiteralMissingAt(s) ==
    /\ TokenOrEnd(s)
    /\ ~FromAt(s) \/ (TokenOrEnd(AfterFrom(s)) /\ ~LiteralAt(AfterFrom(s)))
ClosingBraceAt(rest) == rest # <<>> /\ Head(rest) = "}"

C11_ImportClauseNeedsFrom ==
    [][LET rest == DropWhitespace(Unconsumed(tokenizer))
           after == IF rest = <<>> THEN <<>> ELSE DropWhitespace(Tail(rest))
       IN
       /\ (Len(stmts') > Len(stmts) /\ HasImportClause(stmts'[Len(stmts')])) =>
              /\ pc = "named_imports"
              /\ ClosingBraceAt(rest)
              /\ FromAndLiteralAt(after)
              /\ stmts'[Len(stmts')].module_specifier
                    = ModuleSpecifier(Lexeme(AfterFrom(after)))
       /\ (pc = "named_imports" /\ ClosingBraceAt(rest)
              /\ FromOrLiteralMissingAt(after)) =>
              /\ pc' = "done"
              /\ result'.kind = "ParseError"
              /\ stmts' = stmts]_vars

\* parse_script has failed on import { a } "m", where from is missing.
C11_Witness ==
    /\ input = KwImport \o Sp \o <<"{", "a", "}">> \o Sp \o LitM
    /\ pc = "done"
    /\ result = ErrParseError(FromExpected)

(***************************************************************************)
(* C12.  Source order: for an input that is k well-formed import and       *)
(* variable declarations separated by whitespace (k from 0 to MaxUnits),   *)
(* parse_script neither aborts nor fails, collects the statements in       *)
(* source order, and returns a Script whose body is exactly the k          *)
(* statements built from the declarations, in their order; the empty and   *)
(* the whitespace-only input give an empty body.                           *)
(***************************************************************************)
SourceOrderCases ==
    {[text |-> Join(TextsOf(ds), sep) \o end, stmts |-> StmtsOf(ds)] :
        ds \in TextsOver(WellFormedDeclarations, MaxUnits),
        sep \in {Sp, Nl}, end \in {<<>>, Nl}}

C12_SourceOrder ==
    \A c \in SourceOrderCases :
        input = c.text =>
            /\ pc # "panic"
            /\ result.kind # "ParseError"
            /\ IsPrefix(stmts, c.stmts)
            /\ pc = "done" => result = OkScript(BlockStatement(c.stmts))

(***************************************************************************)
(* C13.  Fail-fast: for an input made of well-formed declarations, then a  *)
(* malformed construct, then anything, parse_script does not abort and     *)
(* returns no Script; it returns the ParseError of that first malformed    *)
(* construct, with only the statements before it collected, and the text   *)
(* after the malformed construct is still unread by the tokenizer when the *)
(* error is returned.                                                      *)
(***************************************************************************)
IsSuffix(p, s) == Len(p) <= Len(s) /\ SubSeq(s, Len(s) - Len(p) + 1, Len(s)) = p

\* A construct that is malformed whatever follows it, and how its reason starts.
Malformed(text, reason) == [text |-> text, reason |-> reason]
MalformedConstructs ==
    { Malformed(<<"}">>, UnexpectedToken),
      Malformed(<<"a">>, UnexpectedToken),
      Malformed(<<"1", "2">>, UnexpectedToken),
      Malformed(<<"=", "=">>, UnexpectedToken),
      Malformed(LitM, UnexpectedToken),
      Malformed(KwImport \o Sp \o <<"a">>, <<"Declaration or statement expected.">>),
      Malformed(KwImport \o Sp \o <<"{", "1", "}">>, <<"Identifier expected">>),
      Malformed(KwImport \o Sp \o <<"{", "a", "}">> \o Sp \o LitM, FromExpected),
      Malformed(KwImport \o Sp \o <<"{", "a", "}">> \o Sp \o From \o Sp \o <<"x">>,
                <<"Expression expected.">>),
      Malformed(KwLet \o Sp \o <<"=">>, <<>>) }

DeclarationOf(text) == CHOOSE d \in WellFormedDeclarations : d.text = text
MalformedOf(text) == CHOOSE m \in MalformedConstructs : m.text = text
WellFormedTexts == {d.text : d \in WellFormedDeclarations}
MalformedTexts == {m.text : m \in MalformedConstructs}
DeclarationsOf(texts) == [i \in 1..Len(texts) |-> DeclarationOf(texts[i])]

\* The units us have their first malformed construct at i.
FirstMalformedAt(us, i) ==
    /\ us[i] \in MalformedTexts
    /\ \A j \in 1..(i - 1) : us[j] \in WellFormedTexts

FailFastCase(us, i, sep, end) ==
    [text |-> Join(us, sep) \o end,
     before |-> StmtsOf(DeclarationsOf(SubSeq(us, 1, i - 1))),
     reason |-> MalformedOf(us[i]).reason,
     after |-> SubSeq(Join(us, sep) \o end,
                      Len(Join(SubSeq(us, 1, i), sep)) + 1, Len(Join(us, sep) \o end))]

FailFastCases ==
    UNION {{FailFastCase(us, i, sep, end) : i \in {k \in 1..Len(us) : FirstMalformedAt(us, k)}} :
              us \in TextsOver(Units, MaxUnits), sep \in {Sp, Nl}, end \in {<<>>, Nl}}

C13_FailFast ==
    \A c \in FailFastCases :
        input = c.text =>
            /\ pc # "panic"
            /\ result.kind # "Script"
            /\ IsPrefix(stmts, c.before)
            /\ pc = "done" =>
                  /\ result.kind = "ParseError"
                  /\ IsPrefix(c.reason, result.reason)
                  /\ stmts = c.before
                  /\ IsSuffix(c.after, Unconsumed(tokenizer))

(***************************************************************************)
(* C14.  Lookahead discipline: under any sequence of peek_token and        *)
(* next_token calls, what next_token has returned (tokens and the slices   *)
(* read after them) is a prefix of what the tokenizer alone returns on the *)
(* same input; a next_token right after a peek_token returns the token the *)
(* peek returned; and a peek_token right after a peek_token that returned  *)
(* a token returns the same token and leaves the tokenizer where it was.   *)
(***************************************************************************)
C14_LookaheadDiscipline ==
    [][/\ IsPrefix(out', TokensFrom(NewTokenizer(input), MaxTokens))
       /\ (result.kind = "peek_token" /\ result'.kind = "next_token") =>
              result'.body = result.body
       /\ (result.kind = "peek_token" /\ result.body # None
              /\ result'.kind = "peek_token") =>
              /\ result'.body = result.body
              /\ tokenizer' = tokenizer]_vars

(***************************************************************************)
(* C15.  A declaration keyword without an identifier is an error, not an   *)
(* abort: when parse_statement pulls const, let or var from the tokenizer  *)
(* and what follows the keyword is the end of input or a token that does   *)
(* not start with a letter, parse_script returns a ParseError.             *)
(***************************************************************************)
DeclarationKeywords == {KwConst, KwLet, KwVar}
AfterLexeme(rest) == DropWhitespace(SubSeq(rest, Len(Lexeme(rest)) + 1, Len(rest)))
NoIdentifierAt(s) == s = <<>> \/ (Recognized(Head(s)) /\ ~IsAlphabetic(Head(s)))
KeywordWithoutIdentifier(rest) ==
    /\ rest # <<>>
    /\ Lexeme(rest) \in DeclarationKeywords
    /\ NoIdentifierAt(AfterLexeme(rest))

C15_KeywordWithoutIdentifier ==
    [][LET rest == DropWhitespace(Unconsumed(tokenizer)) IN
       (pc = "parse_script" /\ lookahead = None /\ KeywordWithoutIdentifier(rest)) =>
           /\ pc' = "done"
           /\ result'.kind = "ParseError"]_vars

(***************************************************************************)
(* C16.  An initializer aborts: when parse_statement is at a const, let or *)
(* var (pulled now, or peeked by the declaration before) that is followed  *)
(* by an identifier and then by the = token, the step ends in the abort of *)
(* the unimplemented assignment-expression parser, with nothing returned   *)
(* and no statement added; and no returned Script holds a                  *)
(* VariableStatement with an initializer.                                  *)
(***************************************************************************)
DeclarationKeywordTokens == {"ConstKeyword", "LetKeyword", "VarKeyword"}
IdentifierAt(s) == s # <<>> /\ IsAlphabetic(Head(s)) /\ Lexeme(s) \notin Keywords
AssignmentAt(s) == s # <<>> /\ Lexeme(s) = <<"=">>
IdentifierThenAssignment(s) == IdentifierAt(s) /\ AssignmentAt(AfterLexeme(s))
InitializedDeclarationAt(rest) ==
    IF lookahead = None
    THEN /\ rest # <<>>
         /\ Lexeme(rest) \in DeclarationKeywords
         /\ IdentifierThenAssignment(AfterLexeme(rest))
    ELSE /\ lookahead \in DeclarationKeywordTokens
         /\ IdentifierThenAssignment(rest)
HasInitializer(stmt) == stmt.type = "VariableStatement" /\ stmt.initializer # <<>>

C16_InitializerAborts ==
    [][/\ (pc = "parse_script"
              /\ InitializedDeclarationAt(DropWhitespace(Unconsumed(tokenizer)))) =>
              /\ pc' = "panic"
              /\ result' = NoResult
              /\ stmts' = stmts
       /\ result'.kind = "Script" =>
              \A i \in 1..Len(result'.body.stmts) : ~HasInitializer(result'.body.stmts[i])]_vars

\* The abort on var x  let x = 1, after the first declaration was collected.
C16_Witness ==
    /\ input = KwVar \o Sp \o <<"x">> \o Sp \o Sp
                  \o KwLet \o Sp \o <<"x">> \o Sp \o <<"=">> \o Sp \o <<"1">>
    /\ pc = "panic"
    /\ Len(stmts) = 1

(***************************************************************************)
(* What parse_script makes of a text, run to its end in one go (at most    *)
(* fuel loop turns): the result it returns, Aborted, or Unfinished.        *)
(***************************************************************************)
Aborted == [kind |-> "abort", body |-> <<>>, reason |-> <<>>]
Unfinished == [kind |-> "unfinished", body |-> <<>>, reason |-> <<>>]

RECURSIVE NamedImportsRun(_, _, _)
NamedImportsRun(o, specifiers, fuel) ==
    IF o.kind # "Loop"
    THEN o
    ELSE IF fuel = 0
         THEN o
         ELSE NamedImportsRun(NamedImportsTurn(o.p, specifiers \o o.val),
                              specifiers \o o.val, fuel - 1)

RECURSIVE ScriptRun(_, _, _)
ScriptRun(o, body, fuel) ==
    CASE o.kind = "None" -> OkScript(BlockStatement(body))
      [] o.kind = "Err" -> ErrParseError(o.val)
      [] o.kind = "Panic" -> Aborted
      [] o.kind = "Loop" -> Unfinished
      [] OTHER ->
            IF fuel = 0
            THEN Unfinished
            ELSE ScriptRun(NamedImportsRun(ParseStatement(o.p), <<>>, fuel),
                           Append(body, o.val), fuel - 1)

RunFuel == 2 * (MaxUnits + MaxItems) + 4
ParseScriptOf(text) ==
    ScriptRun(NamedImportsRun(ParseStatement(NewParser(NewTokenizer(text))), <<>>, RunFuel),
              <<>>, RunFuel)

(***************************************************************************)
(* C17.  Comments are dropped: the parser's comment flag is never set, no  *)
(* returned Script holds a Comment statement, and for declarations with a  *)
(* comment line before each, parse_script ends as it does on the same      *)
(* declarations without the comment lines (same Script, same ParseError,   *)
(* or an abort in both).                                                   *)
(***************************************************************************)
IsComment(stmt) == stmt.type = "Comment"

CommentedCases ==
    {[text |-> CommentedText(ds, comment) \o end,
      plain |-> ParseScriptOf(Join(TextsOf(ds), Nl) \o end)] :
        ds \in TextsOver(WellFormedDeclarations, MaxUnits),
        comment \in CommentLines, end \in {<<>>, Nl}}

C17_CommentsDropped ==
    /\ preserve_comments = FALSE
    /\ \A i \in 1..Len(stmts) : ~IsComment(stmts[i])
    /\ result.kind = "Script" =>
          \A i \in 1..Len(result.body.stmts) : ~IsComment(result.body.stmts[i])
    /\ \A c \in CommentedCases :
          input = c.text =>
              /\ pc = "done" => result = c.plain
              /\ pc = "panic" => c.plain = Aborted

\* Two declarations, each after a comment line, parsed to two statements.
C17_Witness ==
    /\ input = <<"/", "/", "c">> \o Nl \o KwVar \o Sp \o <<"x">> \o Sp \o Nl
                  \o <<"/", "/", "c">> \o Nl \o KwImport \o Sp \o LitM \o Nl
    /\ pc = "done"
    /\ result.kind = "Script"
    /\ Len(result.body.stmts) = 2

(***************************************************************************)
(* C18.  Termination: every turn of parse_script's loop and of             *)
(* parse_named_imports' loop that does not end parse_script (with a        *)
(* Script, a ParseError or an abort) leaves less unread input than it      *)
(* found, so parse_script ends after finitely many tokenizer calls.        *)
(***************************************************************************)
Ended(position) == position \in {"done", "panic"}

C18_Terminates ==
    [][(pc \in {"parse_script", "named_imports"} /\ ~Ended(pc')) =>
           Len(Unconsumed(tokenizer')) < Len(Unconsumed(tokenizer))]_vars

(***************************************************************************)
(* C19.  A lone > is a RightSquareBracket: when the first significant      *)
(* character of the unconsumed input is > and the character after it is    *)
(* neither = nor > (or there is none), next_token returns                  *)
(* RightSquareBracket with the slice >; and no call ever returns           *)
(* RightAngleBracket.                                                      *)
(***************************************************************************)
LoneGreaterAt(rest) ==
    /\ rest # <<>>
    /\ Head(rest) = ">"
    /\ Len(rest) = 1 \/ rest[2] \notin {"=", ">"}

C19_LoneGreaterThan ==
    [][/\ (pc = "tokenize" /\ LoneGreaterAt(DropWhitespace(Unconsumed(tokenizer)))) =>
              out' = Append(out, [token |-> "RightSquareBracket", slice |-> <<">">>])
       /\ \A i \in 1..Len(out') : out'[i].token # "RightAngleBracket"]_vars

(***************************************************************************)
(* C20.  Single-line comment: when the unconsumed input, after its leading *)
(* whitespace, begins with two slashes, next_token returns                 *)
(* SingleLineComment with the slice running from the slashes up to, not    *)
(* including, the next newline (or to the end of input), and the call      *)
(* after it returns what a fresh tokenizer returns on the text that        *)
(* follows the comment.                                                    *)
(***************************************************************************)
RECURSIVE UpToNewline(_)
UpToNewline(s) ==
    IF s = <<>> \/ Head(s) = "\n" THEN <<>> ELSE <<Head(s)>> \o UpToNewline(Tail(s))
AfterLine(s) == SubSeq(s, Len(UpToNewline(s)) + 1, Len(s))
CommentAt(rest) == IsPrefix(<<"/", "/">>, rest)

C20_SingleLineComment ==
    [][LET rest == DropWhitespace(Unconsumed(tokenizer)) IN
       (pc = "tokenize" /\ CommentAt(rest)) =>
           /\ out' = Append(out, [token |-> "SingleLineComment",
                                  slice |-> UpToNewline(rest)])
           /\ TokensFrom(tokenizer', 1) = TokensFrom(NewTokenizer(AfterLine(rest)), 1)]_vars

(***************************************************************************)
(* C21.  Malformed imports are errors: when parse_statement is at the      *)
(* import keyword and what follows is the end of input or a token other    *)
(* than a left brace or a string literal, parse_script returns a           *)
(* ParseError; when the loop of parse_named_imports is at the end of input *)
(* or at a token other than an identifier, a comma or the closing brace,   *)
(* parse_script returns a ParseError; and on import { a with nothing after *)
(* it the loop takes no identifier that was not written and parse_script   *)
(* ends with a ParseError, never a Script.                                 *)
(***************************************************************************)
NoClauseNoLiteralAt(s) == TokenOrEnd(s) /\ (s = <<>> \/ Head(s) \notin {"{", "\"", "'"})
ImportWithoutClauseOrLiteral(rest) ==
    IF lookahead = None
    THEN rest # <<>> /\ Lexeme(rest) = KwImport /\ NoClauseNoLiteralAt(AfterLexeme(rest))
    ELSE lookahead = "ImportKeyword" /\ NoClauseNoLiteralAt(rest)
NotAnImportItemAt(rest) ==
    \/ rest = <<>>
    \/ Recognized(Head(rest)) /\ ~IsAlphabetic(Head(rest)) /\ Head(rest) \notin {",", "}"}
UnclosedImports == KwImport \o Sp \o <<"{">> \o Sp \o <<"a">>
ReturnsParseError(position, returned) == position = "done" /\ returned.kind = "ParseError"

C21_MalformedImport ==
    [][LET rest == DropWhitespace(Unconsumed(tokenizer)) IN
       /\ (pc = "parse_script" /\ ImportWithoutClauseOrLiteral(rest)) =>
              ReturnsParseError(pc', result')
       /\ (pc = "named_imports" /\ NotAnImportItemAt(rest)) =>
              ReturnsParseError(pc', result')
       /\ (input \in {UnclosedImports, UnclosedImports \o Nl}) =>
              /\ pc' # "panic"
              /\ result'.kind # "Script"
              /\ IsPrefix(import_specifiers', <<<<"a">>>>)
              /\ pc' = "done" => result'.kind = "ParseError"]_vars

(***************************************************************************)
(* C22.  Parser slice coherence: every slice the parser reads is the slice *)
(* the tokenizer had for the token the parser last took, whatever it has   *)
(* peeked since.  With the tokens of a turn numbered from the first one    *)
(* parse_statement keeps (comments dropped): the reason of an unexpected   *)
(* token ends with the slice of token 1, a binding identifier and a bare   *)
(* module specifier are the slice of token 2, an import specifier is the   *)
(* slice of the token the loop took, and after a closing brace the from    *)
(* check reads token 2 and the module specifier is the slice of token 3.   *)
(***************************************************************************)
RECURSIVE DropComments(_)
DropComments(tokens) ==
    IF tokens # <<>> /\ Head(tokens).token = "SingleLineComment"
    THEN DropComments(Tail(tokens))
    ELSE tokens

\* The tokens ahead with the tokenizer's slice for each, the cached one first.
TokensAhead ==
    IF lookahead = None
    THEN TokensFrom(tokenizer, MaxTokens)
    ELSE <<[token |-> lookahead, slice |-> Slice(tokenizer)]>>
             \o TokensFrom(tokenizer, MaxTokens - 1)

StatementAdded == Len(stmts') = Len(stmts) + 1
LastAdded == stmts'[Len(stmts')]

C23_QueueAtMostOne ==
    /\ Len(tokenizer.lookaheads) <= 1
    /\ IsSuffix(Unconsumed(tokenizer), input)

(***************************************************************************)
(* C24.  End of stream is absorbing: once a peek_token or next_token call  *)
(* has returned end-of-stream (the tokenizer having returned it with the   *)
(* character stream exhausted), the next call returns end-of-stream too,   *)
(* with an empty slice and nothing cached.                                 *)
(***************************************************************************)
ReturnedEndOfStream(returned) ==
    returned.kind \in {"peek_token", "next_token"} /\ returned.body = None

C24_EndOfStreamAbsorbing ==
    [][(ReturnedEndOfStream(result) /\ tokenizer.chars = <<>>) =>
           /\ ReturnedEndOfStream(result')
           /\ Slice(tokenizer') = <<>>
           /\ lookahead' = None]_vars

====
